---------------------------- MODULE Spec2Model ----------------------------
(***************************************************************************)
(* A model of the maze game: the recursive-backtracking maze generator     *)
(* (maze_generator.py), the collision system and wall-sliding movement     *)
(* (maze_game.py, Raycasting_test.py), the fog-of-war exploration tracker  *)
(* and the game loop (Raycasting_test.py).                                 *)
(*                                                                         *)
(* Eight specifications share the module's variables:                      *)
(*   SpecGen     one run of MazeGenerator(width, height)                   *)
(*   SpecGenRun  the same run, which takes its next step while it has one  *)
(*   SpecPasses  the passes after the carve, on larger mazes               *)
(*   SpecColl    the collision functions applied to drawn inputs           *)
(*   Spec        the game loop on the grid of game_map.py                  *)
(*   SpecEdited  the game loop on grids written by map_editor.py           *)
(*   SpecFrame   the functions of a game frame applied to drawn inputs     *)
(*   SpecMove    the movement code of a game frame applied to drawn inputs *)
(* Each leaves the other parts' variables at their idle values.            *)
(***************************************************************************)
EXTENDS Integers, Sequences, FiniteSets, TLC

VARIABLES
    \* ---- maze generator (maze_generator.py) ----
    gpc,            \* position in MazeGenerator.__init__ / generate_maze
    reqW, reqH,     \* the width and height the caller asked for
    width, height,  \* self.width, self.height
    maze,           \* self.maze: maze[y][x], rows 0..height-1, columns 0..width-1
    stack,          \* the backtracking stack of generate_maze
    openings_left,  \* iterations add_random_openings still has to make
    last_opened,    \* what the last add_random_openings iteration did
    gerr,           \* the exception the run raised, "none" if none
    pushed,         \* per cell of the odd lattice, how often it was put on the stack
    popped,         \* per cell of the odd lattice, how often stack.pop() returned it
    iterations,     \* how many times the body of the while loop has run
    \* ---- the grid and the player (maze_game.py, Raycasting_test.py) ----
    MAP,            \* the grid in play: MAP[row][col], rows and columns from 0
    player_x, player_y,   \* the player's position, in tenths of a pixel
    \* ---- one collision query and one move (maze_game.py) ----
    cpc,            \* "new", "checked" (check_collision returned), "moved"
    new_x, new_y,   \* the proposed position handed to move_player
    collides,       \* what check_collision(new_x, new_y) returned
    old_x, old_y,   \* the position move_player was called at
    moved,          \* what move_player(new_x, new_y) returned
    keys,           \* the keys pygame.key.get_pressed() reported to the movement code
    \* ---- the session (Raycasting_test.py) ----
    game_state,     \* "menu", "game", "game_complete", "exit"
    player_angle,   \* the heading, counted in rotation steps away from math.pi
    explored_tiles, \* the set of (col, row) tiles the player has seen
    show_minimap,   \* the minimap toggle
    game_start_time,\* "None", or "set" to the clock reading at start_new_game
    current_score,  \* what calculate_score last stored
    db_handler,     \* "None", "guest" (not authenticated) or "authenticated"
    db_result,      \* what the calls of db_handler in the latest step reported
    last_auto_save, \* db_handler._last_auto_save, 0 while it is not set
    completed,      \* the completed flag complete_game() handed to db_handler in
                    \* the latest step: "True", "False", "none" if it handed none
    \* ---- the functions of a frame (maze_game.py, Raycasting_test.py) ----
    fpc,            \* "update", "again", "score", "rays", "done"
    clock,          \* int(time.time() - game_start_time) calculate_score read
    start_angle,    \* <<sin, cos>> of the ray's angle, in thousandths
    hit_wall,       \* whether the scan along the ray stopped at a wall
    wall_distance,  \* the depth the scan stopped at, in pixels
    color           \* the shade of the wall strip, <<numerator, denominator>>

genVars == <<gpc, reqW, reqH, width, height, maze, stack, openings_left,
             last_opened, gerr, pushed, popped, iterations>>

playVars == <<MAP, player_x, player_y>>

collVars == <<cpc, new_x, new_y, collides, old_x, old_y, moved, keys>>

sessVars == <<game_state, player_angle, explored_tiles, show_minimap,
              game_start_time, current_score, db_handler, db_result,
              last_auto_save, completed>>

frameVars == <<fpc, clock, start_angle, hit_wall, wall_distance, color>>

vars == <<gpc, reqW, reqH, width, height, maze, stack, openings_left,
          last_opened, gerr, pushed, popped, iterations,
          MAP, player_x, player_y,
          cpc, new_x, new_y, collides, old_x, old_y, moved, keys,
          game_state, player_angle, explored_tiles, show_minimap,
          game_start_time, current_score, db_handler, db_result,
          last_auto_save, completed, fpc, clock, start_angle, hit_wall, wall_distance,
          color>>

WALL == "#"
FLOOR == "."

Max(a, b) == IF a >= b THEN a ELSE b
Min(a, b) == IF a <= b THEN a ELSE b
Abs(a) == IF a >= 0 THEN a ELSE -a

(***************************************************************************)
(* Bounds of the model.                                                    *)
(***************************************************************************)
\* The largest width or height a caller asks the generator for.
MaxReq == 8

\* The most wall cells a synthetic grid of the collision checks holds.
MaxWalls == 1

\* The furthest the player walks from the spawn position, in pixels along x
\* plus pixels along y.
MaxTravel == 10

\* The furthest the heading turns away from its initial value, in rotation
\* steps of 0.05 radians.
MaxTurn == 1

\* The longest a game has lasted when the clock is read, in whole seconds.
MaxElapsed == 1

ReqDims == 0..MaxReq

(***************************************************************************)
(* MazeGenerator                                                           *)
(***************************************************************************)

\* The coercion without the increment: an even dimension is kept.
OddDimKeepEven(n) == n

\* __init__: width if width % 2 == 1 else width + 1
OddDim(n) == IF n % 2 = 1 THEN n ELSE n + 1

\* [['#' for _ in range(w)] for _ in range(h)]
AllWalls(w, h) == [y \in 0..(h - 1) |-> [x \in 0..(w - 1) |-> WALL]]

\* self.maze[y][x] = c
SetCell(m, x, y, c) == [m EXCEPT ![y] = [@ EXCEPT ![x] = c]]

\* directions = [(2, 0), (0, 2), (-2, 0), (0, -2)]
directions == {<<2, 0>>, <<0, 2>>, <<-2, 0>>, <<0, -2>>}

\* The neighbour test reading the current cell instead of the neighbour.
CarveNeighborsTestsCurrent(m, w, h, cx, cy) ==
    {d \in directions :
        LET nx == cx + d[1]
            ny == cy + d[2]
        IN  /\ 0 < nx /\ nx < w - 1
            /\ 0 < ny /\ ny < h - 1
            /\ m[cy][cx] = WALL}

\* The neighbour test without the test for a wall.
CarveNeighborsAnyCell(m, w, h, cx, cy) ==
    {d \in directions :
        LET nx == cx + d[1]
            ny == cy + d[2]
        IN  /\ 0 < nx /\ nx < w - 1
            /\ 0 < ny /\ ny < h - 1}

\* The neighbours of the stack top generate_maze may carve to: two cells away,
\* strictly inside the border, still a wall.
CarveNeighbors(m, w, h, cx, cy) ==
    {d \in directions :
        LET nx == cx + d[1]
            ny == cy + d[2]
        IN  /\ 0 < nx /\ nx < w - 1
            /\ 0 < ny /\ ny < h - 1
            /\ m[ny][nx] = WALL}

\* A carve that opens the neighbour and not the wall between.
CarveNoConnect(m, cx, cy, d) == SetCell(m, cx + d[1], cy + d[2], FLOOR)

\* Carve the neighbour and the wall between the current cell and it.
Carve(m, cx, cy, d) ==
    SetCell(SetCell(m, cx + d[1], cy + d[2], FLOOR),
            cx + d[1] \div 2, cy + d[2] \div 2, FLOOR)

\* create_starting_area without the test that keeps the border.
StartingAreaCellsNoBorderTest(w, h) ==
    {c \in (0..2) \X (0..2) :
        /\ 0 <= c[1] /\ c[1] < w
        /\ 0 <= c[2] /\ c[2] < h}

\* create_starting_area clearing the start cell alone.
StartingAreaCellsStartOnly(w, h) ==
    {c \in {<<1, 1>>} : c[1] < w - 1 /\ c[2] < h - 1}

\* The cells create_starting_area sets to floor: the 3x3 block around (1,1),
\* inside the grid and not on its border.
StartingAreaCells(w, h) ==
    {c \in (0..2) \X (0..2) :
        /\ 0 <= c[1] /\ c[1] < w
        /\ 0 <= c[2] /\ c[2] < h
        /\ ~(c[1] = 0 \/ c[2] = 0 \/ c[1] = w - 1 \/ c[2] = h - 1)}

\* num_openings = max(1, (self.width * self.height) // 100)
NumOpenings(w, h) == Max(1, (w * h) \div 100)

\* The orthogonal neighbours of (x, y) that are floor.
AdjacentPaths(m, x, y) ==
    Cardinality({d \in {<<0, 1>>, <<1, 0>>, <<0, -1>>, <<-1, 0>>} :
                    m[y + d[2]][x + d[1]] = FLOOR})

\* The test of add_random_openings with the count of adjacent paths dropped.
OpensAny(m, x, y, draw) == m[y][x] = WALL /\ draw

\* Whether one iteration of add_random_openings removes the wall at (x, y):
\* it is a wall, at least two neighbours are floor, and random() < 0.3 (draw).
Opens(m, x, y, draw) ==
    /\ m[y][x] = WALL
    /\ AdjacentPaths(m, x, y) >= 2
    /\ draw

\* get_maze: the rows of the grid, first row first.
get_maze ==
    [i \in 1..Cardinality(DOMAIN maze) |->
        [j \in 1..Cardinality(DOMAIN maze[i - 1]) |-> maze[i - 1][j - 1]]]

\* The scan of get_spawn_position that keeps the last floor cell it meets.
GetSpawnLastFloor ==
    LET cand == {c \in (1..(Min(4, width - 1) - 1)) \X (1..(Min(4, height - 1) - 1)) :
                    maze[c[2]][c[1]] = FLOOR}
    IN  IF cand = {} THEN <<1, 1>>
        ELSE CHOOSE c \in cand :
                \A o \in cand : c[2] > o[2] \/ (c[2] = o[2] /\ c[1] >= o[1])

\* get_spawn_position: the first floor cell of rows 1..3, columns 1..3, else (1,1).
get_spawn_position ==
    LET cand == {c \in (1..(Min(4, width - 1) - 1)) \X (1..(Min(4, height - 1) - 1)) :
                    maze[c[2]][c[1]] = FLOOR}
    IN  IF cand = {} THEN <<1, 1>>
        ELSE CHOOSE c \in cand :
                \A o \in cand : c[2] < o[2] \/ (c[2] = o[2] /\ c[1] <= o[1])

\* ---- the run of MazeGenerator(reqW, reqH) ----

\* The cells the carve loop can reach from (1, 1) in steps of directions:
\* odd coordinates strictly inside the grid.
OddLattice(w, h) ==
    {c \in (1..(w - 2)) \X (1..(h - 2)) : c[1] % 2 = 1 /\ c[2] % 2 = 1}

\* No cell has been on the stack yet.
NoneCounted(w, h) == [c \in OddLattice(w, h) |-> 0]

\* Every cell has been on the stack and popped once.
AllCounted(w, h) == [c \in OddLattice(w, h) |-> 1]

\* No generator run, no collision query: the values these parts keep while
\* another specification runs.
GenIdle ==
    /\ gpc = "idle"
    /\ reqW = 0 /\ reqH = 0 /\ width = 0 /\ height = 0
    /\ maze = <<>> /\ stack = <<>>
    /\ openings_left = 0 /\ last_opened = <<>> /\ gerr = "none"
    /\ pushed = <<>> /\ popped = <<>> /\ iterations = 0

CollIdle ==
    /\ cpc = "idle"
    /\ new_x = 0 /\ new_y = 0 /\ old_x = 0 /\ old_y = 0
    /\ collides = FALSE /\ moved = FALSE /\ keys = {}

PlayIdle ==
    /\ MAP = <<>> /\ player_x = 0 /\ player_y = 0

SessIdle ==
    /\ game_state = "idle"
    /\ player_angle = 0
    /\ explored_tiles = {}
    /\ show_minimap = FALSE
    /\ game_start_time = "None"
    /\ current_score = 0
    /\ db_handler = "None"
    /\ db_result = "none"
    /\ completed = "none"
    /\ last_auto_save = 0

FrameIdle ==
    /\ fpc = "idle"
    /\ clock = 0
    /\ start_angle = <<0, 0>>
    /\ hit_wall = FALSE
    /\ wall_distance = 0
    /\ color = <<0, 1>>

GenInit ==
    /\ CollIdle
    /\ PlayIdle
    /\ SessIdle
    /\ FrameIdle
    /\ gpc = "new"
    /\ reqW \in ReqDims
    /\ reqH \in ReqDims
    /\ width = 0
    /\ height = 0
    /\ maze = <<>>
    /\ stack = <<>>
    /\ openings_left = 0
    /\ last_opened = <<>>
    /\ gerr = "none"
    /\ pushed = <<>>
    /\ popped = <<>>
    /\ iterations = 0

\* __init__ up to the carve loop: coerce the dimensions, fill the grid with
\* walls, open (1,1) and push it. self.maze[1][1] raises IndexError when the
\* grid has no row 1 or no column 1.
generate_maze_begin ==
    /\ gpc = "new"
    /\ LET w == OddDim(reqW)
           h == OddDim(reqH)
       IN  /\ width' = w
           /\ height' = h
           /\ IF h <= 1 \/ w <= 1
              THEN /\ maze' = AllWalls(w, h)
                   /\ stack' = <<>>
                   /\ gpc' = "error"
                   /\ gerr' = "IndexError"
                   /\ pushed' = NoneCounted(w, h)
              ELSE /\ maze' = SetCell(AllWalls(w, h), 1, 1, FLOOR)
                   /\ stack' = <<<<1, 1>>>>
                   /\ gpc' = "carve"
                   /\ gerr' = "none"
                   /\ pushed' = [NoneCounted(w, h) EXCEPT ![<<1, 1>>] = 1]
           /\ popped' = NoneCounted(w, h)
    /\ UNCHANGED <<reqW, reqH, openings_left, last_opened, iterations>>
    /\ UNCHANGED <<playVars, collVars, sessVars, frameVars>>

\* One iteration of the while loop whose stack top has a neighbour to carve:
\* random.choice(neighbors), carve, push.
carve_push ==
    /\ gpc = "carve"
    /\ stack # <<>>
    /\ LET cur == stack[Len(stack)]
       IN  \E d \in CarveNeighbors(maze, width, height, cur[1], cur[2]) :
              /\ maze' = Carve(maze, cur[1], cur[2], d)
              /\ stack' = Append(stack, <<cur[1] + d[1], cur[2] + d[2]>>)
              /\ pushed' = [pushed EXCEPT ![<<cur[1] + d[1], cur[2] + d[2]>>] = @ + 1]
    /\ iterations' = iterations + 1
    /\ UNCHANGED <<gpc, reqW, reqH, width, height, openings_left, last_opened, gerr, popped>>
    /\ UNCHANGED <<playVars, collVars, sessVars, frameVars>>

\* One iteration of the while loop whose stack top has none: stack.pop().
carve_pop ==
    /\ gpc = "carve"
    /\ stack # <<>>
    /\ LET cur == stack[Len(stack)]
       IN  CarveNeighbors(maze, width, height, cur[1], cur[2]) = {}
    /\ stack' = SubSeq(stack, 1, Len(stack) - 1)
    /\ popped' = [popped EXCEPT ![stack[Len(stack)]] = @ + 1]
    /\ iterations' = iterations + 1
    /\ UNCHANGED <<gpc, reqW, reqH, width, height, maze, openings_left, last_opened, gerr, pushed>>
    /\ UNCHANGED <<playVars, collVars, sessVars, frameVars>>

\* The while loop ends on the empty stack.
carve_end ==
    /\ gpc = "carve"
    /\ stack = <<>>
    /\ gpc' = "start_area"
    /\ UNCHANGED <<reqW, reqH, width, height, maze, stack, openings_left, last_opened, gerr>>
    /\ UNCHANGED <<pushed, popped, iterations>>
    /\ UNCHANGED <<playVars, collVars, sessVars, frameVars>>

\* create_starting_area, then the first line of add_random_openings.
create_starting_area ==
    /\ gpc = "start_area"
    /\ maze' = [y \in 0..(height - 1) |-> [x \in 0..(width - 1) |->
                  IF <<x, y>> \in StartingAreaCells(width, height)
                  THEN FLOOR ELSE maze[y][x]]]
    /\ openings_left' = NumOpenings(width, height)
    /\ gpc' = "openings"
    /\ UNCHANGED <<reqW, reqH, width, height, stack, last_opened, gerr>>
    /\ UNCHANGED <<pushed, popped, iterations>>
    /\ UNCHANGED <<playVars, collVars, sessVars, frameVars>>

\* One iteration of the loop of add_random_openings. random.randint(2, n - 3)
\* raises ValueError when n - 3 < 2.
add_random_openings ==
    /\ gpc = "openings"
    /\ openings_left > 0
    /\ IF width - 3 < 2 \/ height - 3 < 2
       THEN /\ gpc' = "error"
            /\ gerr' = "ValueError"
            /\ UNCHANGED <<maze, openings_left, last_opened>>
       ELSE \E x \in 2..(width - 3), y \in 2..(height - 3), draw \in BOOLEAN :
              /\ maze' = IF Opens(maze, x, y, draw)
                         THEN SetCell(maze, x, y, FLOOR) ELSE maze
              /\ last_opened' = IF Opens(maze, x, y, draw)
                                THEN <<x, y, AdjacentPaths(maze, x, y)>> ELSE <<>>
              /\ openings_left' = openings_left - 1
              /\ UNCHANGED <<gpc, gerr>>
    /\ UNCHANGED <<reqW, reqH, width, height, stack, pushed, popped, iterations>>
    /\ UNCHANGED <<playVars, collVars, sessVars, frameVars>>

\* The loop of add_random_openings is over: generate_maze returns.
generate_maze_end ==
    /\ gpc = "openings"
    /\ openings_left = 0
    /\ gpc' = "done"
    /\ UNCHANGED <<reqW, reqH, width, height, maze, stack, openings_left, last_opened, gerr>>
    /\ UNCHANGED <<pushed, popped, iterations>>
    /\ UNCHANGED <<playVars, collVars, sessVars, frameVars>>

GenNext ==
    \/ generate_maze_begin
    \/ carve_push
    \/ carve_pop
    \/ carve_end
    \/ create_starting_area
    \/ add_random_openings
    \/ generate_maze_end

SpecGen == GenInit /\ [][GenNext]_vars

\* generate_maze is straight-line code in one thread: while a statement is
\* left to execute, it is executed.
SpecGenRun == GenInit /\ [][GenNext]_vars /\ WF_vars(GenNext)

\* ---- the passes after the carve, on larger mazes ----

\* The walls between cells of the odd lattice the carve loop opens in rows
\* 1..6 when random.choice leads it from (1,1) along row 1 to (7,1), down to
\* (7,3), left to (5,3), down to (5,5), left to (3,5), up to (3,3), left to
\* (1,3) and down to (1,7); (7,5) is reached from (7,7) on the way back.
WindingOpenings ==
    {<<2, 1>>, <<4, 1>>, <<6, 1>>, <<7, 2>>, <<6, 3>>, <<5, 4>>, <<4, 5>>,
     <<3, 4>>, <<2, 3>>, <<1, 4>>, <<1, 6>>, <<7, 6>>}

\* A grid the carve loop can leave, 9 wide: the winding path above, and from
\* (1,7) on the odd rows opened from end to end, to the right and to the
\* left in turn, each joined to the next at the end it is left at.
WindingCarved(w, h) ==
    [y \in 0..(h - 1) |-> [x \in 0..(w - 1) |->
        IF \/ x % 2 = 1 /\ y % 2 = 1 /\ x <= w - 2 /\ y <= h - 2
           \/ <<x, y>> \in WindingOpenings
           \/ y % 2 = 1 /\ 7 <= y /\ y <= h - 2 /\ 1 <= x /\ x <= w - 2
           \/ /\ y % 2 = 0 /\ 8 <= y /\ y <= h - 3
              /\ x = (IF ((y - 6) \div 2) % 2 = 1 THEN w - 2 ELSE 1)
        THEN FLOOR ELSE WALL]]

\* The widths and heights asked for: one with a single attempt of
\* add_random_openings, one with two.
PassRequests == {<<9, 9>>, <<9, 23>>}

\* The carve loop of MazeGenerator(w, h) has ended on the empty stack.
PassInit ==
    /\ CollIdle
    /\ PlayIdle
    /\ SessIdle
    /\ FrameIdle
    /\ gpc = "start_area"
    /\ \E r \in PassRequests : reqW = r[1] /\ reqH = r[2]
    /\ width = OddDim(reqW)
    /\ height = OddDim(reqH)
    /\ maze = WindingCarved(width, height)
    /\ stack = <<>>
    /\ openings_left = 0
    /\ last_opened = <<>>
    /\ gerr = "none"
    /\ pushed = AllCounted(width, height)
    /\ popped = AllCounted(width, height)
    /\ iterations = 2 * Cardinality(OddLattice(width, height)) - 1

PassNext ==
    \/ create_starting_area
    \/ add_random_openings
    \/ generate_maze_end

SpecPasses == PassInit /\ [][PassNext]_vars

(***************************************************************************)
(* The grid in play and the collision system                               *)
(*                                                                         *)
(* Positions are fixed-point numbers, ten to the pixel: TILE_SIZE is 19.2  *)
(* pixels on the 25x25 grid of game_map.py, and player_radius * 0.7 is 5.6 *)
(* pixels.                                                                 *)
(***************************************************************************)

SCREEN_HEIGHT == 480
SCREEN_WIDTH == SCREEN_HEIGHT * 2

\* A length of p pixels in the model's unit.
Px(p) == p * 10

MAP_HEIGHT(M) == Cardinality(DOMAIN M)
MAP_WIDTH(M) == Cardinality(DOMAIN M[0])

\* TILE_SIZE = (SCREEN_WIDTH / 2) / max(MAP_WIDTH, MAP_HEIGHT)
TILE_SIZE(M) == Px(SCREEN_WIDTH \div 2) \div Max(MAP_WIDTH(M), MAP_HEIGHT(M))

\* int(a / b) of Python for b > 0: the quotient truncated towards zero.
TruncDiv(a, b) == IF a >= 0 THEN a \div b ELSE -((-a) \div b)

\* self.player_radius = 8
player_radius == 8

\* The offsets of the points check_collision tests.
TestOffsetsDoubled ==
    LET r == 2 * Px(player_radius)
        d == (r * 7) \div 10
    IN  {<<0, 0>>, <<-r, 0>>, <<r, 0>>, <<0, -r>>, <<0, r>>,
         <<-d, -d>>, <<d, -d>>, <<-d, d>>, <<d, d>>}

\* The offsets of the points check_collision tests: the centre, the four
\* points at player_radius along the axes, the four at player_radius * 0.7
\* along both.
TestOffsets ==
    LET r == Px(player_radius)
        d == (r * 7) \div 10
    IN  {<<0, 0>>, <<-r, 0>>, <<r, 0>>, <<0, -r>>, <<0, r>>,
         <<-d, -d>>, <<d, -d>>, <<-d, d>>, <<d, d>>}

\* is_wall_at_position: the tile of (x, y) is outside the grid or a wall.
is_wall_at_position(M, x, y) ==
    LET col == TruncDiv(x, TILE_SIZE(M))
        row == TruncDiv(y, TILE_SIZE(M))
    IN  IF ~(0 <= row /\ row < MAP_HEIGHT(M) /\ 0 <= col /\ col < MAP_WIDTH(M))
        THEN TRUE
        ELSE M[row][col] = WALL

\* check_collision: some tested point is at a wall.
check_collision(M, x, y) ==
    \E o \in TestOffsets : is_wall_at_position(M, x + o[1], y + o[2])

\* move_player trying the slide along y before the slide along x.
MovePlayerYFirst(M, px, py, nx, ny) ==
    IF ~check_collision(M, nx, ny) THEN <<nx, ny, TRUE>>
    ELSE IF ~check_collision(M, px, ny) THEN <<px, ny, TRUE>>
    ELSE IF ~check_collision(M, nx, py) THEN <<nx, py, TRUE>>
    ELSE <<px, py, FALSE>>

\* move_player: the position after the call and the value returned.
MovePlayer(M, px, py, nx, ny) ==
    IF ~check_collision(M, nx, ny) THEN <<nx, ny, TRUE>>
    ELSE IF ~check_collision(M, nx, py) THEN <<nx, py, TRUE>>
    ELSE IF ~check_collision(M, px, ny) THEN <<px, ny, TRUE>>
    ELSE <<px, py, FALSE>>

\* ---- the collision functions applied to drawn inputs ----

\* The 3x3 grids with at most MaxWalls wall cells.
SyntheticGrids ==
    {[row \in 0..2 |-> [col \in 0..2 |-> IF <<col, row>> \in W THEN WALL ELSE FLOOR]] :
        W \in {X \in SUBSET ((0..2) \X (0..2)) : Cardinality(X) <= MaxWalls}}

\* Coordinates around every tile boundary of a 3x3 grid (tiles of 160
\* pixels): 8.5, 7.2, 6 and 2 pixels before it, 4 and 8.5 pixels after it.
ProbeCoords ==
    {b * (Px(SCREEN_WIDTH \div 2) \div 3) + o : b \in 0..3, o \in {-85, -72, -60, -20, 40, 85}}

\* The proposed move: one pixel, or none, along each axis.
ProbeDeltas == {-Px(1), 0, Px(1)}

CollInit ==
    /\ GenIdle
    /\ SessIdle
    /\ FrameIdle
    /\ MAP \in SyntheticGrids
    /\ player_x \in ProbeCoords
    /\ player_y \in ProbeCoords
    /\ \E dx \in ProbeDeltas, dy \in ProbeDeltas :
          /\ new_x = player_x + dx
          /\ new_y = player_y + dy
    /\ cpc = "new"
    /\ collides = FALSE
    /\ old_x = player_x
    /\ old_y = player_y
    /\ moved = FALSE
    /\ keys = {}

\* check_collision(new_x, new_y)
collision_query ==
    /\ cpc = "new"
    /\ collides' = check_collision(MAP, new_x, new_y)
    /\ cpc' = "checked"
    /\ UNCHANGED <<MAP, player_x, player_y, new_x, new_y, old_x, old_y, moved, keys>>
    /\ UNCHANGED <<genVars, sessVars, frameVars>>

\* move_player(new_x, new_y)
move_player ==
    /\ cpc = "checked"
    /\ LET r == MovePlayer(MAP, player_x, player_y, new_x, new_y)
       IN  /\ player_x' = r[1]
           /\ player_y' = r[2]
           /\ moved' = r[3]
    /\ old_x' = player_x
    /\ old_y' = player_y
    /\ cpc' = "moved"
    /\ UNCHANGED <<MAP, new_x, new_y, collides, keys>>
    /\ UNCHANGED <<genVars, sessVars, frameVars>>

CollNext ==
    \/ collision_query
    \/ move_player

SpecColl == CollInit /\ [][CollNext]_vars

(***************************************************************************)
(* The session: the main loop of Raycasting_test.py                        *)
(*                                                                         *)
(* The heading is math.pi + 0.05 * player_angle.  TILE_SIZE (19.2 pixels),  *)
(* the spawn position (28.8 pixels) and the margin lie on the grid of      *)
(* fifths of a pixel, and a displacement is rounded to that grid.  A read   *)
(* of the clock is an input: int(time.time() - game_start_time) is drawn   *)
(* from ElapsedSeconds.                                                    *)
(***************************************************************************)

\* A grid generate_medium_maze() returned (random.seed(1)), as the columns
\* of the floor cells of each row:
\*   #########################
\*   #.....#.....#.......#...#
\*   #..##.###.#.#.#.###.###.#
\*   #...#...#.#...#.#.#...#.#
\*   #.#.###.#.#####.#.###.#.#
\*   #.#...#.#.....#.#...#.#.#
\*   ###.#.#.#.#.###.#.#.#.#.#
\*   #...#.#.#.#...#.#.#...#.#
\*   #.#####.#.###.#.#.#####.#
\*   #.#.....#...#.#.#.......#
\*   #.#.#######.#.#.#######.#
\*   #.#...#.......#.....#.#.#
\*   #.###.###.#########.#.#.#
\*   #...#...#.#...#...#.#...#
\*   #.#####.#.#.#.#.#.#.#.###
\*   #.....#.#.#.#.#.#...#...#
\*   ###.###.#.#.#.#.#######.#
\*   #...#...#.#.#...#.....#.#
\*   #.###.###.#.#######.###.#
\*   #.....#...#...#.....#...#
\*   #.#####.#####.#.###.#.###
\*   #.....#...#...#...#.#.#.#
\*   #####.#####.###.#.###.#.#
\*   #...........#...#.......#
\*   #########################
MediumMazeFloors ==
    <<{},
      {1, 2, 3, 4, 5, 7, 8, 9, 10, 11, 13, 14, 15, 16, 17, 18, 19, 21, 22, 23},
      {1, 2, 5, 9, 11, 13, 15, 19, 23},
      {1, 2, 3, 5, 6, 7, 9, 11, 12, 13, 15, 17, 19, 20, 21, 23},
      {1, 3, 7, 9, 15, 17, 21, 23},
      {1, 3, 4, 5, 7, 9, 10, 11, 12, 13, 15, 17, 18, 19, 21, 23},
      {3, 5, 7, 9, 11, 15, 17, 19, 21, 23},
      {1, 2, 3, 5, 7, 9, 11, 12, 13, 15, 17, 19, 20, 21, 23},
      {1, 7, 9, 13, 15, 17, 23},
      {1, 3, 4, 5, 6, 7, 9, 10, 11, 13, 15, 17, 18, 19, 20, 21, 22, 23},
      {1, 3, 11, 13, 15, 23},
      {1, 3, 4, 5, 7, 8, 9, 10, 11, 12, 13, 15, 16, 17, 18, 19, 21, 23},
      {1, 5, 9, 19, 21, 23},
      {1, 2, 3, 5, 6, 7, 9, 11, 12, 13, 15, 16, 17, 19, 21, 22, 23},
      {1, 7, 9, 11, 13, 15, 17, 19, 21},
      {1, 2, 3, 4, 5, 7, 9, 11, 13, 15, 17, 18, 19, 21, 22, 23},
      {3, 7, 9, 11, 13, 15, 23},
      {1, 2, 3, 5, 6, 7, 9, 11, 13, 14, 15, 17, 18, 19, 20, 21, 23},
      {1, 5, 9, 11, 19, 23},
      {1, 2, 3, 4, 5, 7, 8, 9, 11, 12, 13, 15, 16, 17, 18, 19, 21, 22, 23},
      {1, 7, 13, 15, 19, 21},
      {1, 2, 3, 4, 5, 7, 8, 9, 11, 12, 13, 15, 16, 17, 19, 21, 23},
      {5, 11, 15, 17, 21, 23},
      {1, 2, 3, 4, 5, 6, 7, 8, 9, 10, 11, 13, 14, 15, 17, 18, 19, 20, 21, 22, 23},
      {}>>

\* The grid MAP[row][col] of a list of rows of floor columns.
GridOf(floors) ==
    [row \in 0..(Len(floors) - 1) |->
        [col \in 0..(Len(floors) - 1) |->
            IF col \in floors[row + 1] THEN FLOOR ELSE WALL]]

\* game_map.MAP: what an import or a reload of game_map leaves there.
GameMaps == {GridOf(MediumMazeFloors)}

\* How many tiles the player sees around the tile they stand on.
VISION_RANGE == 6

\* speed = 1.0: the pixels of one step.
speed == 1

\* The keys the game frame polls.
MoveKeys == {"K_a", "K_d", "K_w", "K_s", "K_q", "K_e"}

\* The sets of keys held down during a frame: none, each key alone, both
\* turns, forward with strafe right, all of them.
KeySets ==
    {{}} \cup {{k} : k \in MoveKeys} \cup {{"K_a", "K_d"}, {"K_w", "K_e"}, MoveKeys}

\* find_spawn_position: the centre of the first floor tile of rows 1..4,
\* columns 1..4, else of tile (1, 1).
find_spawn_position(M) ==
    LET cand == {c \in (1..(Min(5, MAP_WIDTH(M) - 1) - 1)) \X
                       (1..(Min(5, MAP_HEIGHT(M) - 1) - 1)) :
                    M[c[2]][c[1]] = FLOOR}
        first == IF cand = {} THEN <<1, 1>>
                 ELSE CHOOSE c \in cand :
                        \A o \in cand : c[2] < o[2] \/ (c[2] = o[2] /\ c[1] <= o[1])
    IN  <<((2 * first[1] + 1) * TILE_SIZE(M)) \div 2,
          ((2 * first[2] + 1) * TILE_SIZE(M)) \div 2>>

\* The tiles in sight without the test that they are tiles of the grid.
VisibleTilesUnclipped(M, x, y) ==
    LET player_tile_x == TruncDiv(x, TILE_SIZE(M))
        player_tile_y == TruncDiv(y, TILE_SIZE(M))
        near == {d \in (-VISION_RANGE..VISION_RANGE) \X (-VISION_RANGE..VISION_RANGE) :
                    d[1] * d[1] + d[2] * d[2] <= VISION_RANGE * VISION_RANGE}
    IN  {<<player_tile_x + d[1], player_tile_y + d[2]>> : d \in near}

\* The tiles in sight with the tiles at exactly VISION_RANGE left out.
VisibleTilesInside(M, x, y) ==
    LET player_tile_x == TruncDiv(x, TILE_SIZE(M))
        player_tile_y == TruncDiv(y, TILE_SIZE(M))
        near == {d \in (-VISION_RANGE..VISION_RANGE) \X (-VISION_RANGE..VISION_RANGE) :
                    d[1] * d[1] + d[2] * d[2] < VISION_RANGE * VISION_RANGE}
    IN  {t \in {<<player_tile_x + d[1], player_tile_y + d[2]>> : d \in near} :
            /\ 0 <= t[2] /\ t[2] < MAP_HEIGHT(M)
            /\ 0 <= t[1] /\ t[1] < MAP_WIDTH(M)}

\* The tiles of the grid within VISION_RANGE of the player's tile.
VisibleTiles(M, x, y) ==
    LET player_tile_x == TruncDiv(x, TILE_SIZE(M))
        player_tile_y == TruncDiv(y, TILE_SIZE(M))
        near == {d \in (-VISION_RANGE..VISION_RANGE) \X (-VISION_RANGE..VISION_RANGE) :
                    d[1] * d[1] + d[2] * d[2] <= VISION_RANGE * VISION_RANGE}
    IN  {t \in {<<player_tile_x + d[1], player_tile_y + d[2]>> : d \in near} :
            /\ 0 <= t[2] /\ t[2] < MAP_HEIGHT(M)
            /\ 0 <= t[1] /\ t[1] < MAP_WIDTH(M)}

\* update_explored_tiles keeping only the tiles in sight.
UpdateExploredForgets(M, explored, x, y) == VisibleTiles(M, x, y)

\* update_explored_tiles: the explored set after the call.
update_explored_tiles(M, explored, x, y) == explored \cup VisibleTiles(M, x, y)

\* is_valid_position: the centre and the four points at the margin along
\* the axes are all on tiles of the grid that are not walls.
is_valid_position(M, x, y) ==
    LET margin == Px(8)
    IN  \A o \in {<<0, 0>>, <<-margin, 0>>, <<margin, 0>>, <<0, -margin>>, <<0, margin>>} :
            LET col == TruncDiv(x + o[1], TILE_SIZE(M))
                row == TruncDiv(y + o[2], TILE_SIZE(M))
            IN  /\ 0 <= row /\ row < MAP_HEIGHT(M) /\ 0 <= col /\ col < MAP_WIDTH(M)
                /\ M[row][col] # WALL

\* int(time.time() - game_start_time) at a read of the clock.
ElapsedSeconds == 0..MaxElapsed

\* calculate_score without the floor of 0 under the time bonus.
CalculateScoreUnbounded(start, elapsed, explored, score) ==
    IF start # "None"
    THEN (1000 - elapsed) + Cardinality(explored) * 10
    ELSE score

\* calculate_score: current_score after the call, elapsed being
\* int(time.time() - game_start_time).
calculate_score(start, elapsed, explored, score) ==
    IF start # "None"
    THEN Max(0, 1000 - elapsed) + Cardinality(explored) * 10
    ELSE score

\* A fifth of a pixel.
Fifth == Px(1) \div 5

\* 5 * math.sin(0.05 * k) and 5 * math.cos(0.05 * k) for k = 1..4, rounded:
\* 0.25, 0.50, 0.75, 0.99 and 4.99, 4.98, 4.94, 4.90.
SinTable == <<0, 0, 1, 1>>
CosTable == <<5, 5, 5, 5>>

\* math.sin(player_angle) and math.cos(player_angle) pixels at the heading
\* math.pi + 0.05 * k:  sin(pi + t) = -sin(t),  cos(pi + t) = -cos(t).
sin_angle(k) ==
    IF k = 0 THEN 0 ELSE IF k > 0 THEN -SinTable[k] * Fifth ELSE SinTable[-k] * Fifth
cos_angle(k) ==
    IF k = 0 THEN -Px(1) ELSE IF k > 0 THEN -CosTable[k] * Fifth ELSE -CosTable[-k] * Fifth

\* Forward and backward movement without the position test.
WalkUnchecked(M, held, p, d) ==
    IF held THEN <<p[1] + d[1], p[2] + d[2]>> ELSE p

\* Forward and backward movement from p by d if the key is held: the
\* proposed position, else the slide along x, else the slide along y, else p.
Walk(M, held, p, d) ==
    LET new_pos_x == p[1] + d[1]
        new_pos_y == p[2] + d[2]
    IN  IF ~held THEN p
        ELSE IF is_valid_position(M, new_pos_x, new_pos_y) THEN <<new_pos_x, new_pos_y>>
        ELSE IF is_valid_position(M, new_pos_x, p[2]) THEN <<new_pos_x, p[2]>>
        ELSE IF is_valid_position(M, p[1], new_pos_y) THEN <<p[1], new_pos_y>>
        ELSE p

\* Strafing from p by d if the key is held: the proposed position, else p.
Strafe(M, held, p, d) ==
    IF held /\ is_valid_position(M, p[1] + d[1], p[2] + d[2])
    THEN <<p[1] + d[1], p[2] + d[2]>>
    ELSE p

\* The movement code with "elif" at the second rotation key: K_d is not
\* looked at while K_a is held.
AfterKeysTurnOnce(M, K, angle, x, y) ==
    LET a == IF "K_a" \in K THEN angle - 1
             ELSE IF "K_d" \in K THEN angle + 1 ELSE angle
        fwd == <<(-sin_angle(a)) * speed, cos_angle(a) * speed>>
        bwd == <<-((-sin_angle(a)) * speed), -(cos_angle(a) * speed)>>
        left == <<cos_angle(a) * speed, sin_angle(a) * speed>>
        right == <<-(cos_angle(a) * speed), -(sin_angle(a) * speed)>>
    IN  <<a, Strafe(M, "K_e" \in K,
                Strafe(M, "K_q" \in K,
                    Walk(M, "K_s" \in K,
                        Walk(M, "K_w" \in K, <<x, y>>, fwd),
                        bwd),
                    left),
                right)>>

\* The heading and the position after the movement code of one game frame
\* with the keys of K held down: the turns, then forward, backward, strafe
\* left, strafe right, each from where the one before left the player.
AfterKeys(M, K, angle, x, y) ==
    LET a == angle - (IF "K_a" \in K THEN 1 ELSE 0) + (IF "K_d" \in K THEN 1 ELSE 0)
        fwd == <<(-sin_angle(a)) * speed, cos_angle(a) * speed>>
        bwd == <<-((-sin_angle(a)) * speed), -(cos_angle(a) * speed)>>
        left == <<cos_angle(a) * speed, sin_angle(a) * speed>>
        right == <<-(cos_angle(a) * speed), -(sin_angle(a) * speed)>>
    IN  <<a, Strafe(M, "K_e" \in K,
                Strafe(M, "K_q" \in K,
                    Walk(M, "K_s" \in K,
                        Walk(M, "K_w" \in K, <<x, y>>, fwd),
                        bwd),
                    left),
                right)>>

\* The win test with "more than" in the place of "at least".
WinTestAbove(M, explored) ==
    LET total_explorable_tiles ==
            Cardinality({c \in (0..(MAP_WIDTH(M) - 1)) \X (0..(MAP_HEIGHT(M) - 1)) :
                            M[c[2]][c[1]] = FLOOR})
    IN  /\ total_explorable_tiles > 0
        /\ 10 * Cardinality(explored) > 8 * total_explorable_tiles

\* The win test of the game frame: at least 80% of the floor count explored.
WinTest(M, explored) ==
    LET total_explorable_tiles ==
            Cardinality({c \in (0..(MAP_WIDTH(M) - 1)) \X (0..(MAP_HEIGHT(M) - 1)) :
                            M[c[2]][c[1]] = FLOOR})
    IN  /\ total_explorable_tiles > 0
        /\ 10 * Cardinality(explored) >= 8 * total_explorable_tiles

\* ---- grids written by hand or by map_editor.py ----

\* A 25x25 grid of corridors one tile wide: row 1, column 10, row 10 and
\* three tiles of row 23; 70 floor tiles, the spawn tile (1, 1) among them.
CorridorFloors ==
    [r \in 1..25 |->
        IF r - 1 = 1 THEN 1..23
        ELSE IF r - 1 = 10 THEN 1..23
        ELSE IF r - 1 = 23 THEN 10..13
        ELSE IF r - 1 \in 2..22 THEN {10}
        ELSE {}]

\* The n x n grid whose only walls are the border.
RoomFloors(n) ==
    [r \in 1..n |-> IF r - 1 \in 1..(n - 2) THEN 1..(n - 2) ELSE {}]

\* game_map.MAP of a game_map.py that holds a grid literal.
CustomMaps == {GridOf(CorridorFloors), GridOf(RoomFloors(5))}

\* What importlib.reload(game_map) can leave in game_map.MAP: a fresh run of
\* the generator if game_map.py calls it, else a grid literal.
Reloads(M) == IF M \in GameMaps THEN GameMaps ELSE CustomMaps

\* ---- the persistence collaborator (supabase_handler.py) ----

\* What the calls of db_handler made in one step report together: "none" if
\* none is made, else "saved" or "failed" (a call that returns False or None,
\* having caught its exception).
DbReports(called) == IF called THEN {"saved", "failed"} ELSE {"none"}

\* The report of two groups of calls made in one step.
BothReports(r1, r2) ==
    IF r1 = "failed" \/ r2 = "failed" THEN "failed"
    ELSE IF r1 = "saved" \/ r2 = "saved" THEN "saved"
    ELSE "none"

\* complete_game with a persistence failure ending the call before the
\* state changes.
CompleteGameStopsOnFailure(state, start, report) ==
    IF start = "None" \/ report = "failed" THEN state ELSE "game_complete"

\* complete_game: game_state after the call, whatever db_handler reports.
complete_game(state, start, report) ==
    IF start = "None" THEN state ELSE "game_complete"

\* The readings int(time.time() - game_start_time) of the auto-save code.
AutoSaveClock == ElapsedSeconds \cup {30}

\* The auto-save is due: every 30 seconds, once per reading (a reading that
\* is due is above 0, so that 0 stands for no _last_auto_save).
AutoSaveDue(handler, start, t, last) ==
    /\ handler = "authenticated" /\ start # "None"
    /\ t > 0 /\ t % 30 = 0
    /\ last # t

\* ---- the loop ----

\* The module body up to the loop: the player at the spawn position of the
\* grid, the menu on screen, no game started.
ModuleInit ==
    /\ GenIdle
    /\ CollIdle
    /\ FrameIdle
    /\ player_x = find_spawn_position(MAP)[1]
    /\ player_y = find_spawn_position(MAP)[2]
    /\ player_angle = 0
    /\ show_minimap = FALSE
    /\ explored_tiles = {}
    /\ game_state = "menu"
    /\ current_score = 0
    /\ game_start_time = "None"
    /\ db_result = "none"
    /\ completed = "none"
    /\ last_auto_save = 0

\* The grid of the shipped game_map.py, no database connection.
Init ==
    /\ MAP \in GameMaps
    /\ db_handler = "None"
    /\ ModuleInit

\* A custom grid; the database unreachable, reached as a guest, or reached
\* and logged in.
EditedInit ==
    /\ MAP \in CustomMaps
    /\ db_handler \in {"None", "guest", "authenticated"}
    /\ ModuleInit

\* regenerate_maze(): the grid, the position and the explored set after the
\* call that reloads the grid M.
RegenerateKeepsExplored(M, explored) ==
    [MAP |-> M, position |-> find_spawn_position(M), explored_tiles |-> explored]

RegenerateMaze(M, explored) ==
    [MAP |-> M, position |-> find_spawn_position(M), explored_tiles |-> {}]

\* start_new_game()
StartNewGame ==
    /\ game_start_time' = "set"
    /\ current_score' = 0
    /\ explored_tiles' = {}
    /\ player_x' = find_spawn_position(MAP)[1]
    /\ player_y' = find_spawn_position(MAP)[2]
    /\ game_state' = "game"
    /\ db_result' \in DbReports(db_handler = "authenticated")
    /\ completed' = "none"
    /\ UNCHANGED <<MAP, player_angle, show_minimap, db_handler, last_auto_save>>

\* calculate_score() at some reading of the clock
CalculateScore ==
    \E elapsed \in ElapsedSeconds :
        current_score' = calculate_score(game_start_time, elapsed, explored_tiles', current_score)

\* The completed flag complete_game() hands to db_handler: True, in
\* end_game_session(final_score, completed=True) and by the default of
\* save_game_progress, when a game was started and a user is logged in;
\* save_guest_progress takes no such flag.
CompletedFlag(start, handler) ==
    IF start # "None" /\ handler = "authenticated" THEN "True" ELSE "none"

\* complete_game() called from an event handler that then sets game_state
\* to next if it is not "": the score, the calls of db_handler, the state.
CompleteGame(next) ==
    /\ CalculateScore
    /\ \E report \in DbReports(game_start_time # "None" /\ db_handler # "None") :
          /\ db_result' = report
          /\ completed' = CompletedFlag(game_start_time, db_handler)
          /\ game_state' = IF next # "" THEN next
                           ELSE complete_game(game_state, game_start_time, report)

\* handle_menu_input: K_RETURN on "Start New Game"
menu_start ==
    /\ game_state = "menu"
    /\ StartNewGame
    /\ UNCHANGED <<genVars, collVars, frameVars>>

\* K_SPACE on the completion screen
complete_play_again ==
    /\ game_state = "game_complete"
    /\ StartNewGame
    /\ UNCHANGED <<genVars, collVars, frameVars>>

\* K_ESCAPE on the completion screen
complete_to_menu ==
    /\ game_state = "game_complete"
    /\ game_state' = "menu"
    /\ db_result' = "none"
    /\ completed' = "none"
    /\ UNCHANGED <<playVars, player_angle, explored_tiles, show_minimap,
                   game_start_time, current_score, db_handler, last_auto_save>>
    /\ UNCHANGED <<genVars, collVars, frameVars>>

\* K_m in the game
toggle_minimap ==
    /\ game_state = "game"
    /\ show_minimap' = ~show_minimap
    /\ db_result' = "none"
    /\ completed' = "none"
    /\ UNCHANGED <<playVars, game_state, player_angle, explored_tiles,
                   game_start_time, current_score, db_handler, last_auto_save>>
    /\ UNCHANGED <<genVars, collVars, frameVars>>

\* K_r in the game: regenerate_maze()
regenerate_maze ==
    /\ game_state = "game"
    /\ \E M \in Reloads(MAP) :
          LET after == RegenerateMaze(M, explored_tiles)
          IN  /\ MAP' = after.MAP
              /\ player_x' = after.position[1]
              /\ player_y' = after.position[2]
              /\ explored_tiles' = after.explored_tiles
    /\ db_result' = "none"
    /\ completed' = "none"
    /\ UNCHANGED <<game_state, player_angle, show_minimap, game_start_time,
                   current_score, db_handler, last_auto_save>>
    /\ UNCHANGED <<genVars, collVars, frameVars>>

\* K_ESCAPE in the game: complete_game() if a game was started, then the menu
escape_to_menu ==
    /\ game_state = "game"
    /\ UNCHANGED <<playVars, player_angle, explored_tiles, show_minimap,
                   game_start_time, db_handler, last_auto_save>>
    /\ CompleteGame("menu")
    /\ UNCHANGED <<genVars, collVars, frameVars>>

\* K_c in the game: complete_game()
complete_key ==
    /\ game_state = "game"
    /\ UNCHANGED <<playVars, player_angle, explored_tiles, show_minimap,
                   game_start_time, db_handler, last_auto_save>>
    /\ CompleteGame("")
    /\ UNCHANGED <<genVars, collVars, frameVars>>

\* pygame.QUIT: complete_game() if a game is running, then sys.exit(0)
quit ==
    /\ game_state \in {"menu", "game", "game_complete"}
    /\ UNCHANGED <<playVars, player_angle, explored_tiles, show_minimap,
                   game_start_time, db_handler, last_auto_save>>
    /\ IF game_state = "game"
       THEN CompleteGame("exit")
       ELSE /\ game_state' = "exit"
            /\ db_result' = "none"
            /\ completed' = "none"
            /\ UNCHANGED current_score
    /\ UNCHANGED <<genVars, collVars, frameVars>>

\* One pass of the loop in the game with the keys of K held down:
\* update_explored_tiles(), calculate_score(), the movement code, the win
\* test with complete_game(), the auto-save.  The win test reads the explored
\* set and the grid only, which the movement code leaves alone;
\* complete_game() and the auto-save compute the score again.
game_frame ==
    /\ game_state = "game"
    /\ explored_tiles' = update_explored_tiles(MAP, explored_tiles, player_x, player_y)
    /\ \E won \in {WinTest(MAP, explored_tiles')} :
       \E report \in DbReports(won /\ game_start_time # "None" /\ db_handler # "None") :
          /\ game_state' = IF won
                           THEN complete_game(game_state, game_start_time, report)
                           ELSE game_state
          /\ \E K \in KeySets :
                LET after == AfterKeys(MAP, K, player_angle, player_x, player_y)
                    spawn == find_spawn_position(MAP)
                IN  /\ -MaxTurn <= after[1] /\ after[1] <= MaxTurn
                    /\ Abs(after[2][1] - spawn[1]) + Abs(after[2][2] - spawn[2])
                          <= Px(MaxTravel)
                    /\ player_angle' = after[1]
                    /\ player_x' = after[2][1]
                    /\ player_y' = after[2][2]
          /\ \E elapsed \in ElapsedSeconds,
                t \in IF db_handler = "authenticated" THEN AutoSaveClock ELSE {0} :
                LET due == AutoSaveDue(db_handler, game_start_time, t, last_auto_save)
                IN  \E saved \in DbReports(due) :
                      /\ last_auto_save' = IF due THEN t ELSE last_auto_save
                      /\ current_score' =
                            calculate_score(game_start_time, IF due THEN t ELSE elapsed,
                                            explored_tiles', current_score)
                      /\ db_result' = BothReports(report, saved)
          /\ completed' = IF won THEN CompletedFlag(game_start_time, db_handler)
                          ELSE "none"
    /\ UNCHANGED <<MAP, show_minimap, game_start_time, db_handler>>
    /\ UNCHANGED <<genVars, collVars, frameVars>>

\* One pass of the loop on the completion screen: draw_game_complete()
complete_frame ==
    /\ game_state = "game_complete"
    /\ UNCHANGED <<playVars, game_state, player_angle, explored_tiles, show_minimap,
                   game_start_time, db_handler, last_auto_save>>
    /\ CalculateScore
    /\ db_result' = "none"
    /\ completed' = "none"
    /\ UNCHANGED <<genVars, collVars, frameVars>>

Next ==
    \/ menu_start
    \/ complete_play_again
    \/ complete_to_menu
    \/ toggle_minimap
    \/ regenerate_maze
    \/ escape_to_menu
    \/ complete_key
    \/ quit
    \/ game_frame
    \/ complete_frame

Spec == Init /\ [][Next]_vars

SpecEdited == EditedInit /\ [][Next]_vars

(***************************************************************************)
(* The functions of a game frame applied to drawn inputs                   *)
(*                                                                         *)
(* update_explored_tiles, calculate_score and one ray of cast_rays, on a   *)
(* grid and at a position a game can be in.  A ray's angle is given by its *)
(* sine and cosine in thousandths; a point of the ray is in ten-thousandths*)
(* of a pixel.  A shade is the fraction <<numerator, denominator>>.        *)
(***************************************************************************)

\* MAX_DEPTH = int(max(MAP_WIDTH, MAP_HEIGHT) * TILE_SIZE), in pixels
MAX_DEPTH(M) == (Max(MAP_WIDTH(M), MAP_HEIGHT(M)) * TILE_SIZE(M)) \div Px(1)

\* RAY_RANGE = VISION_RANGE * TILE_SIZE
RAY_RANGE(M) == VISION_RANGE * TILE_SIZE(M)

\* The tile (col, row) of the point at depth pixels along the ray from
\* (x, y): target_x = x - sin * depth, target_y = y + cos * depth.
RayTile(M, x, y, angle, depth) ==
    <<TruncDiv(x * 1000 - angle[1] * depth * 10, TILE_SIZE(M) * 1000),
      TruncDiv(y * 1000 + angle[2] * depth * 10, TILE_SIZE(M) * 1000)>>

\* The scan of a ray stops at this depth: the tile is a wall, or it is not a
\* tile of the grid.
RayStops(M, x, y, angle, depth) ==
    LET t == RayTile(M, x, y, angle, depth)
    IN  IF 0 <= t[2] /\ t[2] < MAP_HEIGHT(M) /\ 0 <= t[1] /\ t[1] < MAP_WIDTH(M)
        THEN M[t[2]][t[1]] = WALL
        ELSE TRUE

RECURSIVE ScanLast(_, _, _, _, _, _)
\* The scan of the depths lo..hi that keeps the last depth it stops at.
ScanLast(M, x, y, angle, lo, hi) ==
    IF lo > hi THEN <<FALSE, 0>>
    ELSE IF lo = hi
    THEN IF RayStops(M, x, y, angle, lo) THEN <<TRUE, lo>> ELSE <<FALSE, 0>>
    ELSE LET mid == (lo + hi) \div 2
             late == ScanLast(M, x, y, angle, mid + 1, hi)
         IN  IF late[1] THEN late ELSE ScanLast(M, x, y, angle, lo, mid)

RECURSIVE Scan(_, _, _, _, _, _)
\* for depth in range(lo, hi + 1) with its break: <<hit_wall, wall_distance>>
\* when the loop ends.  The depths are visited in increasing order, the
\* upper half of the range only if the loop did not break in the lower half.
Scan(M, x, y, angle, lo, hi) ==
    IF lo > hi THEN <<FALSE, 0>>
    ELSE IF lo = hi
    THEN IF RayStops(M, x, y, angle, lo) THEN <<TRUE, lo>> ELSE <<FALSE, 0>>
    ELSE LET mid == (lo + hi) \div 2
             early == Scan(M, x, y, angle, lo, mid)
         IN  IF early[1] THEN early ELSE Scan(M, x, y, angle, mid + 1, hi)

\* The scan of a ray that keeps the last depth it stops at.
ScanRayLast(M, x, y, angle) == ScanLast(M, x, y, angle, 0, MAX_DEPTH(M) - 1)

\* The scan of one ray of cast_rays: for depth in range(MAX_DEPTH).
ScanRay(M, x, y, angle) == Scan(M, x, y, angle, 0, MAX_DEPTH(M) - 1)

\* The shade with the two formulas exchanged: the dim one up to RAY_RANGE,
\* the bright one beyond it.
StripColorExchanged(M, distance) ==
    IF Px(distance) <= RAY_RANGE(M)
    THEN <<Max(0, 50 * 1000), 1000 + distance * distance>>
    ELSE <<255 * 10000, 10000 + distance * distance>>

\* color: 255 / (1 + d * d * 0.0001) up to RAY_RANGE,
\* max(0, 50 / (1 + d * d * 0.001)) beyond it.
StripColor(M, distance) ==
    IF Px(distance) <= RAY_RANGE(M)
    THEN <<255 * 10000, 10000 + distance * distance>>
    ELSE <<Max(0, 50 * 1000), 1000 + distance * distance>>

\* Sines and cosines of ray angles, in thousandths: along the axes (the
\* first is the direction of growing x), two diagonals, and three more.
RayAngles ==
    {<<-1000, 0>>, <<1000, 0>>, <<0, 1000>>, <<0, -1000>>,
     <<-707, 707>>, <<707, -707>>, <<-600, 800>>, <<500, 866>>, <<-259, -966>>}

\* Readings of the clock late in a session.
LateSeconds == {999, 1000, 1001, 86400}

\* The grids of the frame functions: the custom grids and a 10x10 room.
FrameMaps == CustomMaps \cup {GridOf(RoomFloors(10))}

\* The tiles the player is put on, where they are floor.
FrameTiles == {<<1, 1>>, <<2, 1>>, <<3, 3>>, <<10, 10>>}

\* The centre of a tile.
TileCentre(M, t) ==
    <<((2 * t[1] + 1) * TILE_SIZE(M)) \div 2, ((2 * t[2] + 1) * TILE_SIZE(M)) \div 2>>

\* A game under way, the player at the centre of a floor tile, nothing
\* explored yet; then two frames' calls of update_explored_tiles(), a call
\* of calculate_score() and one ray of cast_rays().
FrameInit ==
    /\ GenIdle
    /\ CollIdle
    /\ MAP \in FrameMaps
    /\ \E t \in FrameTiles :
          /\ t[1] < MAP_WIDTH(MAP) /\ t[2] < MAP_HEIGHT(MAP)
          /\ MAP[t[2]][t[1]] = FLOOR
          /\ player_x = TileCentre(MAP, t)[1]
          /\ player_y = TileCentre(MAP, t)[2]
    /\ explored_tiles = {}
    /\ game_state = "game"
    /\ game_start_time = "set"
    /\ player_angle = 0
    /\ show_minimap = FALSE
    /\ current_score = 0
    /\ db_handler = "None"
    /\ db_result = "none"
    /\ completed = "none"
    /\ last_auto_save = 0
    /\ fpc = "update"
    /\ clock = 0
    /\ start_angle = <<0, 0>>
    /\ hit_wall = FALSE
    /\ wall_distance = 0
    /\ color = <<0, 1>>

\* update_explored_tiles()
frame_update_explored ==
    /\ fpc \in {"update", "again"}
    /\ fpc' = IF fpc = "update" THEN "again" ELSE "score"
    /\ explored_tiles' = update_explored_tiles(MAP, explored_tiles, player_x, player_y)
    /\ UNCHANGED <<playVars, game_state, player_angle, show_minimap, game_start_time,
                   current_score, db_handler, db_result, last_auto_save,
                   completed>>
    /\ UNCHANGED <<clock, start_angle, hit_wall, wall_distance, color>>
    /\ UNCHANGED <<genVars, collVars>>

\* calculate_score()
frame_calculate_score ==
    /\ fpc = "score"
    /\ fpc' = "rays"
    /\ clock' \in ElapsedSeconds \cup LateSeconds \cup {-1}
    /\ current_score' = calculate_score(game_start_time, clock', explored_tiles, current_score)
    /\ UNCHANGED <<playVars, game_state, player_angle, explored_tiles, show_minimap,
                   game_start_time, db_handler, db_result, last_auto_save,
                   completed>>
    /\ UNCHANGED <<start_angle, hit_wall, wall_distance, color>>
    /\ UNCHANGED <<genVars, collVars>>

\* One pass of the loop over the rays in cast_rays()
frame_cast_ray ==
    /\ fpc = "rays"
    /\ fpc' = "done"
    /\ start_angle' \in RayAngles
    /\ LET scan == ScanRay(MAP, player_x, player_y, start_angle')
       IN  /\ hit_wall' = scan[1]
           /\ wall_distance' = scan[2]
           /\ color' = IF scan[1] THEN StripColor(MAP, scan[2]) ELSE <<0, 1>>
    /\ UNCHANGED <<playVars, sessVars, clock>>
    /\ UNCHANGED <<genVars, collVars>>

FrameNext ==
    \/ frame_update_explored
    \/ frame_calculate_score
    \/ frame_cast_ray

SpecFrame == FrameInit /\ [][FrameNext]_vars

(***************************************************************************)
(* The movement code of a game frame applied to drawn inputs               *)
(*                                                                         *)
(* The player stands in the 5x5 room, at the spawn position or at a        *)
(* position walked to from it, next to a wall or in a corner, and heads up *)
(* to three rotation steps away from math.pi, where a step of one pixel    *)
(* has a part along each axis.                                             *)
(***************************************************************************)

\* The grid of the movement code: the 5x5 room, tiles of 96 pixels.
MoveMaps == {GridOf(RoomFloors(5))}

\* Coordinates, in tenths of a pixel: 8 pixels from the wall before the
\* room, a fifth of a pixel and a pixel further, the spawn position, and a
\* pixel and a fifth of a pixel before the last coordinate whose margin
\* is still in the room.
MoveCoords == {1040, 1042, 1050, 1440, 3748, 3756}

\* Headings, in rotation steps away from math.pi.
MoveHeadings == -3..3

MoveInit ==
    /\ GenIdle
    /\ FrameIdle
    /\ MAP \in MoveMaps
    /\ player_x \in MoveCoords
    /\ player_y \in MoveCoords
    /\ player_angle \in MoveHeadings
    /\ game_state = "game"
    /\ explored_tiles = {}
    /\ show_minimap = FALSE
    /\ game_start_time = "set"
    /\ current_score = 0
    /\ db_handler = "None"
    /\ db_result = "none"
    /\ completed = "none"
    /\ last_auto_save = 0
    /\ cpc = "polled"
    /\ new_x = 0 /\ new_y = 0
    /\ collides = FALSE
    /\ old_x = player_x
    /\ old_y = player_y
    /\ moved = FALSE
    /\ keys = {}

\* The movement code of one game frame: keys = pygame.key.get_pressed(),
\* the rotation, forward, backward, strafe left, strafe right.
frame_movement ==
    /\ cpc = "polled"
    /\ cpc' = "walked"
    /\ keys' \in KeySets
    /\ LET after == AfterKeys(MAP, keys', player_angle, player_x, player_y)
       IN  /\ player_angle' = after[1]
           /\ player_x' = after[2][1]
           /\ player_y' = after[2][2]
           /\ moved' = (after[2] # <<player_x, player_y>>)
    /\ old_x' = player_x
    /\ old_y' = player_y
    /\ UNCHANGED <<MAP, new_x, new_y, collides>>
    /\ UNCHANGED <<game_state, explored_tiles, show_minimap, game_start_time,
                   current_score, db_handler, db_result, last_auto_save,
                   completed>>
    /\ UNCHANGED <<genVars, frameVars>>

MoveNext == frame_movement

SpecMove == MoveInit /\ [][MoveNext]_vars

(***************************************************************************)
(* Properties of the generated maze                                        *)
(***************************************************************************)

Cells(w, h) == (0..(w - 1)) \X (0..(h - 1))

FloorCells(m, w, h) == {c \in Cells(w, h) : m[c[2]][c[1]] = FLOOR}

\* The orthogonal neighbours of a cell.
Neighbours(c) ==
    {<<c[1] + 1, c[2]>>, <<c[1] - 1, c[2]>>, <<c[1], c[2] + 1>>, <<c[1], c[2] - 1>>}

RECURSIVE Grow(_, _, _)
\* Seen, grown by the cells of F reached from the frontier Front.
Grow(F, Seen, Front) ==
    IF Front = {} THEN Seen
    ELSE LET N == (UNION {Neighbours(c) : c \in Front} \cap F) \ Seen
         IN  Grow(F, Seen \cup N, N)

\* The cells of F joined to a cell of S by orthogonally adjacent cells of F.
ReachFrom(F, S) == Grow(F, S, S)

\* The pairs of orthogonally adjacent floor cells, each counted once.
FloorEdges(F) ==
    {e \in F \X {<<1, 0>>, <<0, 1>>} : <<e[1][1] + e[2][1], e[1][2] + e[2][2]>> \in F}

\* C3: in every grid the generator returns, every cell of row 0, row
\* height-1, column 0 and column width-1 is a wall.
C3_BorderIsWall ==
    gpc = "done" =>
        \A c \in Cells(width, height) :
            (c[1] = 0 \/ c[2] = 0 \/ c[1] = width - 1 \/ c[2] = height - 1)
                => get_maze[c[2] + 1][c[1] + 1] = WALL

\* A returned grid in which the openings pass removed a wall.
C3_Witness ==
    gpc = "done" /\ width >= 7 /\ height >= 7 /\ last_opened # <<>>

\* C4: in every generated maze every floor cell is reachable from the spawn
\* tile by a path of orthogonally adjacent floor cells.
C4_FloorConnected ==
    gpc = "done" =>
        LET F == FloorCells(maze, width, height)
        IN  /\ get_spawn_position \in F
            /\ ReachFrom(F, {get_spawn_position}) = F

\* A returned 9x9 grid whose last opening joined two paths.
C4_Witness ==
    gpc = "done" /\ width = 9 /\ height = 9 /\ last_opened # <<>>

\* C5: the generated grid's width and height are odd; an odd request is kept
\* and an even one incremented by exactly 1; the returned grid has that many
\* rows and columns.
C5_OddDimensions ==
    gpc = "done" =>
        /\ width % 2 = 1 /\ height % 2 = 1
        /\ (reqW % 2 = 1 => width = reqW) /\ (reqW % 2 = 0 => width = reqW + 1)
        /\ (reqH % 2 = 1 => height = reqH) /\ (reqH % 2 = 0 => height = reqH + 1)
        /\ Len(get_maze) = height
        /\ \A i \in 1..Len(get_maze) : Len(get_maze[i]) = width

\* A grid returned for an even width and an odd height.
C5_Witness ==
    gpc = "done" /\ reqW = 6 /\ reqH = 5 /\ Len(get_maze) = 5

\* C6: when the carve loop has finished, before post-processing, every cell
\* with both coordinates odd inside the border is floor and the floor cells
\* form a tree: connected, with one edge fewer than cells (one simple path
\* between any two floor cells, no cycle).
C6_PerfectMaze ==
    gpc = "start_area" =>
        LET F == FloorCells(maze, width, height)
        IN  /\ \A c \in Cells(width, height) :
                  (c[1] % 2 = 1 /\ c[2] % 2 = 1 /\ c[1] < width - 1 /\ c[2] < height - 1)
                      => c \in F
            /\ ReachFrom(F, {<<1, 1>>}) = F
            /\ Cardinality(FloorEdges(F)) = Cardinality(F) - 1

\* The carve loop has finished on a 9x7 grid.
C6_Witness ==
    gpc = "start_area" /\ width = 9 /\ height = 7

\* C7: generation raises no error for any requested width and height that
\* are both at least 3.
C7_NoErrorFrom3 ==
    (reqW >= 3 /\ reqH >= 3) => gerr = "none"

\* C8: a requested width or height below 3 is clamped to a safe minimum and
\* a grid is returned: no error, and the dimensions used are at least 3.
C8_SmallDimsClamped ==
    (reqW < 3 \/ reqH < 3) =>
        /\ gerr = "none"
        /\ gpc # "new" => (width >= 3 /\ height >= 3)

(***************************************************************************)
(* Properties of the collision system                                      *)
(***************************************************************************)

\* The points check_collision samples around (x, y).
SampledPoints(x, y) == {<<x + o[1], y + o[2]>> : o \in TestOffsets}

\* The point lies inside the grid's rectangle.
InsideGrid(M, p) ==
    /\ 0 <= p[1] /\ p[1] < MAP_WIDTH(M) * TILE_SIZE(M)
    /\ 0 <= p[2] /\ p[2] < MAP_HEIGHT(M) * TILE_SIZE(M)

\* The point lies inside the grid, in a floor cell.
OnFloor(M, p) ==
    /\ InsideGrid(M, p)
    /\ M[p[2] \div TILE_SIZE(M)][p[1] \div TILE_SIZE(M)] = FLOOR

\* The closed disc of radius player_radius around (x, y) meets the cell
\* (col, row), which holds its low edges and not its high ones.
DiscMeetsCell(M, x, y, col, row) ==
    LET ts == TILE_SIZE(M)
        r == Px(player_radius)
        farX == x >= (col + 1) * ts
        farY == y >= (row + 1) * ts
        dx == IF x < col * ts THEN col * ts - x
              ELSE IF farX THEN x - (col + 1) * ts ELSE 0
        dy == IF y < row * ts THEN row * ts - y
              ELSE IF farY THEN y - (row + 1) * ts ELSE 0
    IN  IF farX \/ farY THEN dx * dx + dy * dy < r * r
        ELSE dx * dx + dy * dy <= r * r

\* The disc around (x, y) meets a wall cell.
DiscMeetsWall(M, x, y) ==
    \E row \in DOMAIN M : \E col \in DOMAIN M[row] :
        M[row][col] = WALL /\ DiscMeetsCell(M, x, y, col, row)

\* The disc around (x, y) lies inside the grid's rectangle.
DiscInsideGrid(M, x, y) ==
    /\ InsideGrid(M, <<x - Px(player_radius), y - Px(player_radius)>>)
    /\ InsideGrid(M, <<x + Px(player_radius), y + Px(player_radius)>>)

\* C2: move_player takes the proposed point if it is valid, else
\* (proposed.x, current.y) if that is valid, else (current.x, proposed.y) if
\* that is valid, else leaves the position unchanged and reports no move; from
\* a valid position with an invalid proposal and a valid sub-move the result
\* is that sub-move (x first), reported as a move.
C2_MoveOrder ==
    [][(cpc = "checked" /\ cpc' = "moved") =>
        LET vNew == ~check_collision(MAP, new_x, new_y)
            vX == ~check_collision(MAP, new_x, player_y)
            vY == ~check_collision(MAP, player_x, new_y)
            vCur == ~check_collision(MAP, player_x, player_y)
            after == <<player_x', player_y'>>
        IN  /\ vNew => after = <<new_x, new_y>>
            /\ (~vNew /\ vX) => after = <<new_x, player_y>>
            /\ (~vNew /\ ~vX /\ vY) => after = <<player_x, new_y>>
            /\ (~vNew /\ ~vX /\ ~vY) => (after = <<player_x, player_y>> /\ ~moved')
            /\ (vCur /\ ~vNew /\ (vX \/ vY)) =>
                  /\ moved'
                  /\ after = IF vX THEN <<new_x, player_y>> ELSE <<player_x, new_y>>
    ]_vars

\* move_player slid along x from a valid position: the proposal collided,
\* both sub-moves were open and differ from the position it was called at.
C2_Witness ==
    /\ cpc = "moved" /\ moved /\ collides
    /\ new_x # old_x /\ new_y # old_y
    /\ ~check_collision(MAP, old_x, old_y)
    /\ ~check_collision(MAP, new_x, old_y)
    /\ ~check_collision(MAP, old_x, new_y)
    /\ <<player_x, player_y>> = <<new_x, old_y>>

C10_SampledIsExact ==
    (cpc = "checked" /\ DiscInsideGrid(MAP, new_x, new_y)) =>
        (~collides <=> ~DiscMeetsWall(MAP, new_x, new_y))

\* C10, amended: a position whose disc lies inside the grid and meets no
\* wall cell is valid (an invalid position's disc meets a wall cell or leaves
\* the grid).
C10_ClearDiscIsValid ==
    (cpc = "checked" /\ DiscInsideGrid(MAP, new_x, new_y)
        /\ ~DiscMeetsWall(MAP, new_x, new_y)) => ~collides

\* A valid position whose disc is clear of a wall cell less than a pixel away.
C10_Witness ==
    /\ cpc = "checked" /\ ~collides
    /\ DiscInsideGrid(MAP, new_x, new_y)
    /\ ~DiscMeetsWall(MAP, new_x, new_y)
    /\ \E d \in {<<Px(1), 0>>, <<-Px(1), 0>>, <<0, Px(1)>>, <<0, -Px(1)>>} :
          DiscMeetsWall(MAP, new_x + d[1], new_y + d[2])

(***************************************************************************)
(* Properties of the session                                               *)
(***************************************************************************)

\* C1: the explored-tile set never loses a tile.  Every step of the session
\* leaves explored_tiles a superset of what it was, whatever keys are held
\* and whatever the minimap toggle does, except a step that empties it, and
\* such a step is a maze regeneration (K_r) or a new game start (K_RETURN in
\* the menu, K_SPACE on the completion screen).
C1_ExploredNeverShrinks ==
    [][\/ explored_tiles \subseteq explored_tiles'
       \/ /\ explored_tiles' = {}
          /\ regenerate_maze \/ menu_start \/ complete_play_again]_vars

\* The game has added the tiles in sight of a second tile to those seen from
\* the first: the set holds all the tiles in sight and tiles that are out
\* of sight by now.
C1_Witness ==
    /\ game_state = "game"
    /\ VisibleTiles(MAP, player_x, player_y) \subseteq explored_tiles
    /\ explored_tiles \ VisibleTiles(MAP, player_x, player_y) # {}

(***************************************************************************)
(* Properties of the frame functions                                       *)
(***************************************************************************)

\* The tile the player stands on.
PlayerTile == <<player_x \div TILE_SIZE(MAP), player_y \div TILE_SIZE(MAP)>>

\* The tiles of the grid M at a distance of at most VISION_RANGE tiles from
\* the tile t.
InRange(M, t) ==
    {c \in Cells(MAP_WIDTH(M), MAP_HEIGHT(M)) :
        (c[1] - t[1]) * (c[1] - t[1]) + (c[2] - t[2]) * (c[2] - t[2])
            <= VISION_RANGE * VISION_RANGE}

\* C11: one call of update_explored_tiles from the player's tile (px, py)
\* adds to the explored set exactly the tiles (px + dx, py + dy) of the grid
\* with dx * dx + dy * dy <= VISION_RANGE * VISION_RANGE and no other tile;
\* from tile (10, 10) of a 25x25 grid it adds (10, 16) and not (10, 17); a
\* second call at the same tile leaves the set as it is.
C11_UpdateAddsDisc ==
    [][frame_update_explored =>
          /\ explored_tiles' = explored_tiles \cup InRange(MAP, PlayerTile)
          /\ (MAP_WIDTH(MAP) = 25 /\ MAP_HEIGHT(MAP) = 25 /\ PlayerTile = <<10, 10>>)
                => (<<10, 16>> \in explored_tiles' /\ <<10, 17>> \notin explored_tiles')
          /\ fpc = "again" => explored_tiles' = explored_tiles]_vars

\* The second call has returned at tile (10, 10) of a 25x25 grid: the set
\* holds (10, 16) and (16, 10), and neither (10, 17) nor (15, 15).
C11_Witness ==
    /\ fpc = "score"
    /\ MAP_WIDTH(MAP) = 25 /\ PlayerTile = <<10, 10>>
    /\ <<10, 16>> \in explored_tiles /\ <<16, 10>> \in explored_tiles
    /\ <<10, 17>> \notin explored_tiles /\ <<15, 15>> \notin explored_tiles

(***************************************************************************)
(* Properties of the session on custom grids                               *)
(***************************************************************************)

\* C12: in every reachable state every tile (col, row) of the explored set
\* is a tile of the current grid, 0 <= col < MAP_WIDTH and
\* 0 <= row < MAP_HEIGHT, also after a regeneration has replaced the grid
\* by one of another size.
C12_ExploredInsideGrid ==
    \A t \in explored_tiles :
        /\ 0 <= t[1] /\ t[1] < MAP_WIDTH(MAP)
        /\ 0 <= t[2] /\ t[2] < MAP_HEIGHT(MAP)

\* A regeneration has replaced the 25x25 grid, of which more than 25 tiles
\* were explored, by the 5x5 grid: the game goes on with the score of the
\* old grid and nothing explored.
C12_Witness ==
    /\ game_state = "game"
    /\ MAP_WIDTH(MAP) = 5 /\ MAP_HEIGHT(MAP) = 5
    /\ explored_tiles = {}
    /\ current_score >= 1400

\* The number of floor tiles of each grid of the sessions.
FloorCount ==
    [M \in GameMaps \cup CustomMaps |->
        Cardinality(FloorCells(M, MAP_WIDTH(M), MAP_HEIGHT(M)))]

\* C13: the exploration percentage of the win test is the number of explored
\* tiles that are floor over the number of floor tiles of the grid, explored
\* wall tiles not counting: a game frame completes the game exactly when
\* explored floor tiles make up at least 80% of the floor tiles.  (No step
\* that ends otherwise is a game frame.)
C13_WinCountsFloorOnly ==
    [][(/\ game_state = "game"
        /\ (game_state' = "game_complete")
             # (/\ FloorCount[MAP] > 0
                /\ 10 * Cardinality({t \in explored_tiles' : MAP[t[2]][t[1]] = FLOOR})
                      >= 8 * FloorCount[MAP]))
          => ~game_frame]_vars

\* C14: in a game frame the win transition is taken if and only if the
\* exploration percentage, len(explored_tiles) over the number of floor
\* tiles, is at least 0.8: at exactly 0.8 the frame completes the game, and
\* below 0.8 the game stays running.  (No step that ends otherwise is a
\* game frame.)
C14_WinIffThreshold ==
    [][(/\ game_state = "game"
        /\ \/ game_state' \notin {"game", "game_complete"}
           \/ (game_state' = "game_complete")
                 # (/\ FloorCount[MAP] > 0
                    /\ 10 * Cardinality(explored_tiles') >= 8 * FloorCount[MAP]))
          => ~game_frame]_vars

\* A frame has completed a game with exactly 80% explored: 56 tiles on the
\* grid of 70 floor tiles.
C14_Witness ==
    /\ game_state = "game_complete"
    /\ Cardinality(explored_tiles) = 56
    /\ 10 * Cardinality(explored_tiles) = 8 * FloorCount[MAP]

\* The player's pose: position and heading.
Pose == <<player_x, player_y, player_angle>>

\* C15: a session goes from the menu (Idle) to the game (Running) and from
\* there to the completion screen (Won) or out by K_ESCAPE or pygame.QUIT
\* (Quit).  The pose and the explored set change only in a step of a running
\* game or a step that starts one; the completion screen is entered only
\* from a running game whose exploration percentage has reached 0.8; a
\* running game is left for the menu or the exit only by the escape or the
\* quit handler; and once a game is over, nothing changes the pose or the
\* explored set until a new game starts.
C15_SessionStateMachine ==
    [][/\ (Pose' # Pose \/ explored_tiles' # explored_tiles)
             => (game_state = "game" \/ game_state' = "game")
       /\ (game_state' = "game_complete" /\ game_state # "game_complete")
             => /\ game_state = "game"
                /\ FloorCount[MAP] > 0
                /\ 10 * Cardinality(explored_tiles') >= 8 * FloorCount[MAP]
       /\ (game_state = "game" /\ game_state' \in {"menu", "exit"})
             => (escape_to_menu \/ quit)
       /\ (game_state \in {"game_complete", "menu", "exit"} /\ game_state' # "game")
             => (Pose' = Pose /\ explored_tiles' = explored_tiles)]_vars

\* C16: a call of calculate_score in a running game leaves the score at
\* max(0, 1000 - elapsed) + 10 * len(explored_tiles), elapsed being the
\* whole seconds since the game started; the score is never negative,
\* however long the game has lasted.
C16_ScoreFormula ==
    [][frame_calculate_score =>
          /\ current_score' = (IF clock' >= 1000 THEN 0 ELSE 1000 - clock')
                                 + Cardinality(explored_tiles) * 10
          /\ current_score' >= 0]_vars

\* The score of a game that has lasted more than 1000 seconds, on the 5x5
\* grid with all of its 25 tiles explored: the time bonus is 0.
C16_Witness ==
    /\ fpc \in {"rays", "done"}
    /\ clock > 1000
    /\ Cardinality(explored_tiles) = 25
    /\ current_score = 250

\* C17: a regeneration replaces the grid, puts the player on the spawn
\* position of the new grid and empties the explored set in one step of the
\* event loop, between two frames: the game state is as it was, and every
\* state a game frame starts from has the explored set inside the current
\* grid and the player on a valid position of the current grid.  A new game
\* start empties the explored set as well.  (A regeneration is looked for
\* among the steps that keep the score and call db_handler not at all.)
C17_RegenerateIsOneStep ==
    [][/\ (db_result' = "none" /\ current_score' = current_score /\ regenerate_maze)
             => /\ explored_tiles' = {}
                /\ <<player_x', player_y'>> = find_spawn_position(MAP')
                /\ game_state' = game_state
       /\ (game_state # "game" /\ game_state' = "game") => explored_tiles' = {}
       /\ game_state' = "game"
             => /\ \A t \in explored_tiles' :
                      /\ 0 <= t[1] /\ t[1] < MAP_WIDTH(MAP')
                      /\ 0 <= t[2] /\ t[2] < MAP_HEIGHT(MAP')
                /\ is_valid_position(MAP', player_x', player_y')]_vars

\* A regeneration in a game on a 25x25 grid of which 40 tiles or more were
\* explored: the player is on the spawn position, nothing is explored, the
\* score is the one of the frame before.
C17_Witness ==
    /\ game_state = "game"
    /\ MAP_WIDTH(MAP) = 25
    /\ explored_tiles = {}
    /\ <<player_x, player_y>> = find_spawn_position(MAP)
    /\ current_score >= 1400

\* C18: a failure of db_handler, in complete_game(), in the auto-save or at
\* the start of a session, changes nothing of the core state and does not
\* stop the session.  In a step in which db_handler reports a failure the
\* grid stays, the explored set is what it was or what the frame's update
\* makes of it, the score is a score of that set, a game that starts does
\* start, a game that goes on has only had an auto-save fail and is below
\* the win threshold, and any other step ends on the completion screen, in
\* the menu or at the exit.
C18_PersistenceFailureIsHarmless ==
    [][db_result' = "failed" =>
          /\ MAP' = MAP
          /\ IF game_state # "game"
             THEN /\ game_state' = "game"
                  /\ explored_tiles' = {}
                  /\ current_score' = 0
             ELSE /\ explored_tiles' \in
                        {explored_tiles, explored_tiles \cup InRange(MAP, PlayerTile)}
                  /\ \E e \in AutoSaveClock :
                        current_score' = Max(0, 1000 - e) + 10 * Cardinality(explored_tiles')
                  /\ game_state' \in {"game", "game_complete", "menu", "exit"}
                  /\ game_state' = "game"
                        => /\ last_auto_save' # last_auto_save
                           /\ 10 * Cardinality(explored_tiles') < 8 * FloorCount[MAP]]_vars

\* A game in which an auto-save was made has reached the completion screen
\* at exactly 80% explored while db_handler reported a failure.
C18_Witness ==
    /\ game_state = "game_complete"
    /\ db_result = "failed"
    /\ last_auto_save = 30
    /\ 10 * Cardinality(explored_tiles) = 8 * FloorCount[MAP]


\* The depths range(MAX_DEPTH) at which the ray cast from the player's
\* position meets a wall tile or leaves the grid.
StopDepths ==
    {d \in 0..(MAX_DEPTH(MAP) - 1) : RayStops(MAP, player_x, player_y, start_angle, d)}

\* C19: when a ray has been cast, wall_distance is the smallest depth of
\* range(MAX_DEPTH) at which the point of the ray is on a wall tile or outside
\* the grid, and hit_wall is false exactly when there is no such depth.  In
\* the 5x5 room a ray along growing x from the centre of tile (1, 1) stops on
\* the border wall, column 4.
C19_RayStopsAtFirstWall ==
    fpc = "done" =>
       /\ hit_wall <=> StopDepths # {}
       /\ hit_wall => /\ wall_distance \in StopDepths
                      /\ \A d \in StopDepths : wall_distance <= d
       /\ (/\ MAP = GridOf(RoomFloors(5))
           /\ <<player_x, player_y>> = TileCentre(MAP, <<1, 1>>)
           /\ start_angle = <<-1000, 0>>)
             => /\ hit_wall
                /\ RayTile(MAP, player_x, player_y, start_angle, wall_distance) = <<4, 1>>
                /\ MAP[1][4] = WALL

\* The ray of the example has been cast in the 5x5 room and has stopped
\* after crossing floor tiles.
C19_Witness ==
    /\ fpc = "done"
    /\ MAP = GridOf(RoomFloors(5))
    /\ <<player_x, player_y>> = TileCentre(MAP, <<1, 1>>)
    /\ start_angle = <<-1000, 0>>
    /\ hit_wall
    /\ wall_distance > 0

\* A ray has been cast that meets no wall within MAX_DEPTH.
RayWithoutHit ==
    /\ fpc = "done"
    /\ ~hit_wall


RECURSIVE GCD(_, _)
\* The greatest common divisor of two naturals.
GCD(a, b) == IF b = 0 THEN a ELSE GCD(b, a % b)

\* One shade is at most another: the fractions compared by cross
\* multiplication, after the common factor of the numerators is taken out.
ShadeLeq(s, t) ==
    LET g == GCD(s[1], t[1])
    IN  \/ g = 0
        \/ (s[1] \div g) * t[2] <= (t[1] \div g) * s[2]

\* C20: the shade of a wall strip is 255 / (1 + d * d * 0.0001) when the hit
\* depth d is at most RAY_RANGE and max(0, 50 / (1 + d * d * 0.001)) beyond
\* it; it lies in 0..255, no smaller depth of range(MAX_DEPTH) has a lower
\* shade and no greater depth a higher one, on either side of RAY_RANGE.
C20_ShadeFallsWithDepth ==
    (fpc = "done" /\ hit_wall) =>
       /\ color = IF 10 * wall_distance <= VISION_RANGE * TILE_SIZE(MAP)
                  THEN <<2550000, 10000 + wall_distance * wall_distance>>
                  ELSE <<50000, 1000 + wall_distance * wall_distance>>
       /\ color[2] > 0
       /\ 0 <= color[1]
       /\ color[1] <= 255 * color[2]
       /\ \A d \in 0..(MAX_DEPTH(MAP) - 1) :
             /\ d < wall_distance => ShadeLeq(color, StripColor(MAP, d))
             /\ d > wall_distance => ShadeLeq(StripColor(MAP, d), color)

\* A ray has stopped on a wall beyond RAY_RANGE, so that the depths before
\* the hit lie on both sides of RAY_RANGE.
C20_Witness ==
    /\ fpc = "done"
    /\ hit_wall
    /\ Px(wall_distance) > RAY_RANGE(MAP)
    /\ Px(MAX_DEPTH(MAP) - 1) > Px(wall_distance)

\* A ray has stopped on a wall within RAY_RANGE, after crossing floor.
HitWithinRange ==
    /\ fpc = "done"
    /\ hit_wall
    /\ wall_distance > 0
    /\ Px(wall_distance) <= RAY_RANGE(MAP)
    /\ Px(MAX_DEPTH(MAP) - 1) > RAY_RANGE(MAP)


(***************************************************************************)
(* Properties of the generator's accessors and passes                      *)
(***************************************************************************)

\* The floor cells of rows 1..min(4, height - 2), columns 1..min(4, width - 2)
\* of the generator's grid.
SpawnWindowFloors ==
    {c \in (1..Min(4, width - 2)) \X (1..Min(4, height - 2)) : maze[c[2]][c[1]] = FLOOR}

\* The first cell of a set of cells, rows scanned in increasing order and
\* the columns of a row in increasing order; (1, 1) for the empty set.
FirstInScan(S) ==
    IF S = {} THEN <<1, 1>>
    ELSE CHOOSE c \in S : \A o \in S : c[2] < o[2] \/ (c[2] = o[2] /\ c[1] <= o[1])

\* C21: on a generated maze get_spawn_position() returns the first floor cell
\* of rows 1..min(4, height - 2), columns 1..min(4, width - 2), rows and then
\* columns in increasing order, and (1, 1) if there is none; the game's
\* find_spawn_position() starts the player at the centre of that tile.
C21_SpawnIsFirstFloorOfWindow ==
    gpc = "done" =>
       /\ get_spawn_position = FirstInScan(SpawnWindowFloors)
       /\ find_spawn_position(maze) = TileCentre(maze, FirstInScan(SpawnWindowFloors))

\* A 7x7 maze is generated whose window of the scan has floor cells in its
\* fourth row or column besides those around (1, 1).
C21_Witness ==
    /\ gpc = "done"
    /\ width = 7 /\ height = 7
    /\ \E c \in SpawnWindowFloors : c[1] = 4 \/ c[2] = 4


\* The cells of the generator's grid whose content a step changes.
ChangedCells ==
    {c \in Cells(width, height) : maze'[c[2]][c[1]] # maze[c[2]][c[1]]}

\* The orthogonally adjacent cells of c that are floor before the step.
FloorNeighbours(c) ==
    {n \in Neighbours(c) : n \in Cells(width, height) /\ maze[n[2]][n[1]] = FLOOR}

\* C22: add_random_openings makes max(1, width * height // 100) attempts:
\* the pass begins with that many to make, every step of the pass but its
\* return makes one of them, and it returns when none is left.  An attempt
\* changes at most one cell, from wall to floor; that cell is not on the
\* border and had two or more floor cells orthogonally next to it.
C22_OpeningsPass ==
    [][/\ (gpc = "start_area")
          => openings_left' = Max(1, (width * height) \div 100)
       /\ (gpc = "openings")
          => /\ IF gpc' = "done"
                THEN openings_left = 0 /\ ChangedCells = {}
                ELSE gpc' = "openings" /\ openings_left' = openings_left - 1
             /\ openings_left' >= 0
             /\ Cardinality(ChangedCells) <= 1
             /\ \A c \in ChangedCells :
                   /\ maze[c[2]][c[1]] = WALL
                   /\ maze'[c[2]][c[1]] = FLOOR
                   /\ 0 < c[1] /\ c[1] < width - 1
                   /\ 0 < c[2] /\ c[2] < height - 1
                   /\ Cardinality(FloorNeighbours(c)) >= 2]_vars

\* The pass has returned on a 9x23 maze, where it makes two attempts; its
\* last attempt opened a wall, and the wall at (4, 2), which has one floor
\* cell next to it, is still there.
C22_Witness ==
    /\ gpc = "done"
    /\ width * height >= 200
    /\ last_opened # <<>>
    /\ maze[last_opened[2]][last_opened[1]] = FLOOR
    /\ WindingCarved(width, height)[last_opened[2]][last_opened[1]] = WALL
    /\ maze[2][4] = WALL
    /\ Cardinality({n \in Neighbours(<<4, 2>>) : maze[n[2]][n[1]] = FLOOR}) = 1


\* The cells on the border of the generator's grid.
BorderCells ==
    {c \in Cells(width, height) :
        c[1] = 0 \/ c[2] = 0 \/ c[1] = width - 1 \/ c[2] = height - 1}

\* The cells around (1, 1) that are not on the border of a grid of width and
\* height 5 or more.
SpawnPocket == {<<1, 1>>, <<2, 1>>, <<1, 2>>, <<2, 2>>}

\* C23: create_starting_area() changes no border cell and, on a grid of
\* width and height 5 or more, leaves (1,1), (2,1), (1,2) and (2,2) floor
\* whatever the carve loop left there; they are floor in the maze
\* generate_maze returns.
C23_SpawnPocketIsOpen ==
    /\ [][(gpc = "start_area")
            => /\ \A c \in BorderCells : maze'[c[2]][c[1]] = maze[c[2]][c[1]]
               /\ (width >= 5 /\ height >= 5)
                     => \A c \in SpawnPocket : maze'[c[2]][c[1]] = FLOOR]_vars
    /\ [](gpc \in {"openings", "done"} /\ width >= 5 /\ height >= 5
            => \A c \in SpawnPocket : maze[c[2]][c[1]] = FLOOR)

\* A 7x7 maze is returned in which no opening was made next to the pocket:
\* (2, 2), which the carve loop never opens, is floor between standing walls.
C23_Witness ==
    /\ gpc = "done"
    /\ width = 7 /\ height = 7
    /\ \A c \in SpawnPocket : maze[c[2]][c[1]] = FLOOR
    /\ maze[2][3] = WALL
    /\ maze[3][2] = WALL


(***************************************************************************)
(* Properties of the movement code                                         *)
(***************************************************************************)

\* The five points of the game's position test: the position and the points
\* 8 pixels from it along the axes.
MarginPoints(x, y) ==
    {<<x, y>>, <<x - 80, y>>, <<x + 80, y>>, <<x, y - 80>>, <<x, y + 80>>}

\* The position test of the game: every one of the five points is on a tile
\* of the grid that is not a wall.
PositionFree(M, x, y) ==
    \A p \in MarginPoints(x, y) :
        LET col == TruncDiv(p[1], TILE_SIZE(M))
            row == TruncDiv(p[2], TILE_SIZE(M))
        IN  /\ 0 <= col /\ col < MAP_WIDTH(M)
            /\ 0 <= row /\ row < MAP_HEIGHT(M)
            /\ M[row][col] # WALL

\* The rule of move_player for a step from p to q: q if it is free, else
\* q's x with p's y, else p's x with q's y, else p.
SlideRule(M, p, q) ==
    IF PositionFree(M, q[1], q[2]) THEN q
    ELSE IF PositionFree(M, q[1], p[2]) THEN <<q[1], p[2]>>
    ELSE IF PositionFree(M, p[1], q[2]) THEN <<p[1], q[2]>>
    ELSE p

\* The step one translation key proposes at the heading a.
KeyStep(key, a) ==
    CASE key = "K_w" -> <<(-sin_angle(a)) * speed, cos_angle(a) * speed>>
      [] key = "K_s" -> <<sin_angle(a) * speed, -(cos_angle(a) * speed)>>
      [] key = "K_q" -> <<cos_angle(a) * speed, sin_angle(a) * speed>>
      [] key = "K_e" -> <<-(cos_angle(a) * speed), -(sin_angle(a) * speed)>>

\* C24: a frame in which one translation key is held (forward, backward,
\* strafe left or strafe right) leaves the player where the rule of
\* move_player puts them for the step that key proposes: at the proposed
\* position, else slid along x, else slid along y, else where they were.
C24_TranslationsUseSlideRule ==
    [][(cpc = "polled")
         => \A key \in {"K_w", "K_s", "K_q", "K_e"} :
               (keys' = {key})
                  => LET step == KeyStep(key, player_angle)
                     IN  <<player_x', player_y'>> =
                            SlideRule(MAP, <<player_x, player_y>>,
                                      <<player_x + step[1], player_y + step[2]>>)]_vars


(***************************************************************************)
(* Properties of the order of a game frame                                 *)
(***************************************************************************)

\* The tile the player stands on after the step.
PlayerTileAfter ==
    <<TruncDiv(player_x', TILE_SIZE(MAP)), TruncDiv(player_y', TILE_SIZE(MAP))>>

\* C25: in a game frame the movement comes first, then the update of the
\* explored set from the position the movement ended at, then the win test:
\* the explored set the win test of a frame reads holds every tile within
\* VISION_RANGE of the position the player has at the end of that frame.
\* Stated for the frames that take the player onto another tile: no step
\* that does so and leaves a tile in range of the new tile unexplored is a
\* game frame.
C25_ExploredFollowsMove ==
    [][(/\ game_state = "game"
        /\ PlayerTileAfter # PlayerTile
        /\ ~(InRange(MAP, PlayerTileAfter) \subseteq explored_tiles'))
          => ~game_frame]_vars


\* C26: rotation and translation are independent.  The movement code of a
\* frame turns the heading by one rotation step to the left for K_a and one
\* to the right for K_d, so that both together cancel, whatever other keys
\* are held; with turn keys only it leaves the position alone, with
\* translation keys only it leaves the heading alone, and it never changes
\* the grid.
C26_TurnsAndStepsIndependent ==
    [][(cpc = "polled")
         => /\ MAP' = MAP
            /\ player_angle' = player_angle
                                 - (IF "K_a" \in keys' THEN 1 ELSE 0)
                                 + (IF "K_d" \in keys' THEN 1 ELSE 0)
            /\ (keys' \subseteq {"K_a", "K_d"})
                  => <<player_x', player_y'>> = <<player_x, player_y>>
            /\ (keys' \cap {"K_a", "K_d"} = {})
                  => player_angle' = player_angle]_vars

\* The movement code has run with both turn keys held and nothing else, at
\* a heading away from math.pi, and the player has not moved.
C26_Witness ==
    /\ cpc = "walked"
    /\ keys = {"K_a", "K_d"}
    /\ player_angle = 2
    /\ <<player_x, player_y>> = <<old_x, old_y>>
    /\ ~moved

\* The movement code has run with a translation key held and no turn key,
\* and the player has moved.
StepWithoutTurn ==
    /\ cpc = "walked"
    /\ keys = {"K_w"}
    /\ player_angle = -3
    /\ moved


(***************************************************************************)
(* Properties of what a session's end hands to db_handler                  *)
(***************************************************************************)

\* C27: the completed flag handed to db_handler when a game ends is True if
\* and only if the game ended through the win condition.  A game left by
\* K_ESCAPE or pygame.QUIT, for the menu or the exit, and reported to
\* db_handler is reported with completed = False; a game that reaches the
\* completion screen and is reported with completed = True has met the win
\* condition.
C27_CompletedIffWon ==
    [][(game_state = "game" /\ completed' # "none")
         => /\ game_state' \in {"menu", "exit"} => completed' = "False"
            /\ completed' = "True"
                 => /\ game_state' = "game_complete"
                    /\ FloorCount[MAP] > 0
                    /\ 10 * Cardinality(explored_tiles') >= 8 * FloorCount[MAP]]_vars


(***************************************************************************)
(* Properties of the completion screen                                     *)
(***************************************************************************)

\* C30: once a game has met the win condition and reached the completion
\* screen, the final score is fixed: no later frame of the completion screen
\* shows a score other than the one computed at the transition and handed
\* to db_handler.
C30_FinalScoreIsFixed ==
    [][(/\ game_state = "game_complete"
        /\ game_state' = "game_complete"
        /\ FloorCount[MAP] > 0
        /\ 10 * Cardinality(explored_tiles) >= 8 * FloorCount[MAP])
          => current_score' = current_score]_vars


(***************************************************************************)
(* Properties of the player's position in a session                        *)
(***************************************************************************)

\* C29: if the spawn position is free under the game's position test, the
\* player's position is free in every state of a session, whatever turn and
\* translation keys the frames are given: none of the five points tested is
\* on a wall tile or outside the grid.
C29_PositionStaysFree ==
    LET spawn == find_spawn_position(MAP)
    IN  PositionFree(MAP, spawn[1], spawn[2])
           => PositionFree(MAP, player_x, player_y)

\* A game is under way, the player has walked away from the spawn position
\* and stands where a step of one pixel along x or along y is not free.
C29_Witness ==
    /\ game_state = "game"
    /\ <<player_x, player_y>> # find_spawn_position(MAP)
    /\ PositionFree(MAP, find_spawn_position(MAP)[1], find_spawn_position(MAP)[2])
    /\ \E d \in {<<Px(1), 0>>, <<-Px(1), 0>>, <<0, Px(1)>>, <<0, -Px(1)>>} :
          ~PositionFree(MAP, player_x + d[1], player_y + d[2])


(***************************************************************************)
(* Properties of the carve loop                                            *)
(***************************************************************************)

\* What the loop has done so far is within what the claim allows: no cell of
\* the odd lattice has been put on the stack more than once or popped more
\* than once, no cell is on the stack twice, and the body has run at most
\* twice as often as the lattice has cells.
CarveWithinBounds ==
    gpc \in {"carve", "start_area", "openings", "done"}
       => /\ \A c \in OddLattice(width, height) :
                pushed[c] <= 1 /\ popped[c] <= pushed[c]
          /\ \A i, j \in 1..Len(stack) : stack[i] = stack[j] => i = j
          /\ iterations <= 2 * Cardinality(OddLattice(width, height))

\* C28: the carve loop terminates whatever random.choice picks: a run that
\* has entered the loop leaves it on the empty stack, and up to then every
\* cell of the odd lattice is pushed at most once and popped at most once
\* and the loop makes at most 2 * (number of odd-lattice cells) iterations.
C28_CarveLoopTerminates ==
    /\ []CarveWithinBounds
    /\ (gpc = "carve") ~> (gpc = "start_area" /\ stack = <<>>)

\* The loop has ended on a 9x9 grid: each of the 16 cells of the odd lattice
\* was pushed once and popped once, in 31 iterations.
C28_Witness ==
    /\ gpc = "start_area"
    /\ width = 9 /\ height = 9
    /\ stack = <<>>
    /\ \A c \in OddLattice(width, height) : pushed[c] = 1 /\ popped[c] = 1
    /\ iterations = 31

=============================================================================
